---- MODULE Spec2Model ----
(***************************************************************************)
(* Burn orchestration of espefuse (espressif/efuse/base_operations.py):    *)
(* the five commands burn_efuse, read_protect_efuse, write_protect_efuse,  *)
(* burn_block_data and burn_bit, run against one EspEfuses object.         *)
(*                                                                         *)
(* espefuse runs one command per process: the EspEfuses object is built    *)
(* from what the chip holds, one command runs, the process ends.  Init is  *)
(* a chip in one of several burned states, just read.  The command is a    *)
(* small state machine: its Call action parses the command line and runs   *)
(* the code up to the first loop, then one action per loop iteration, one  *)
(* for efuses.burn_all(), one per iteration of the checking loop, and one  *)
(* for the final report.                                                   *)
(***************************************************************************)
EXTENDS Integers, Sequences, FiniteSets, TLC

\* ---------------------------------------------------------------- bounds
\* Byte length of data block BLOCK1 (BLOCK2 is one byte longer).
BlockBytes == 2
\* Longest list of names, blocks or bit numbers on one command line.
MaxNames == 2

\* ------------------------------------------------------------ bit helpers
Bit(n, k) == (n \div (2 ^ k)) % 2

\* Bit i of a byte buffer: bit (i mod 8), from the least significant, of byte
\* (i div 8).
BufBit(buf, i) == Bit(buf[(i \div 8) + 1], i % 8)

\* The byte whose bit k (from the least significant) is bits[k].
ByteOf(bits) ==
    bits[0] + 2 * bits[1] + 4 * bits[2] + 8 * bits[3]
    + 16 * bits[4] + 32 * bits[5] + 64 * bits[6] + 128 * bits[7]

\* The buffer of len bytes whose bit i is bitAt[i].
BufOf(bitAt, len) ==
    [k \in 1..len |-> ByteOf([j \in 0..7 |-> bitAt[8 * (k - 1) + j]])]

Zeros(n) == [k \in 1..n |-> 0]

Reverse(s) == [k \in 1..Len(s) |-> s[Len(s) + 1 - k]]

Range(s) == {s[k] : k \in 1..Len(s)}

\* ---------------------------------------------------------------- catalog
\* The registry of one chip: three blocks, BLOCK0 holding the protection
\* bits.  BLOCK1 uses an error-correcting coding scheme, the others NONE.
BlockIds == 0..2

BlockNameOf == <<"BLOCK0", "BLOCK1", "BLOCK2">>

BURN_BLOCK_DATA_NAMES == {"BLOCK1", "BLOCK2"}

CODING_SCHEME_NONE == "NONE"

get_coding_scheme(b) == IF b = 1 THEN "CODED" ELSE CODING_SCHEME_NONE

get_block_len(b) == IF b = 0 THEN 1 ELSE BlockBytes + b - 1

get_index_block_by_name(name) ==
    CHOOSE b \in BlockIds : BlockNameOf[b + 1] = name

\* The fields, in the registry's order.  read_disable_bit and
\* write_disable_bit are sets: empty for None, else the one bit number in the
\* RD_DIS resp. WR_DIS field.
EfuseOrder == <<"RD_DIS", "WR_DIS", "KEY_A", "KEY_B", "DATA">>

EfuseNames == Range(EfuseOrder)

Efuse ==
    [ RD_DIS |-> [block |-> 0, bit_offset |-> 0, bit_width |-> 2,
                  read_disable_bit |-> {}, write_disable_bit |-> {0}],
      WR_DIS |-> [block |-> 0, bit_offset |-> 2, bit_width |-> 3,
                  read_disable_bit |-> {}, write_disable_bit |-> {0}],
      KEY_A  |-> [block |-> 1, bit_offset |-> 0, bit_width |-> 2,
                  read_disable_bit |-> {0}, write_disable_bit |-> {1}],
      KEY_B  |-> [block |-> 1, bit_offset |-> 2, bit_width |-> 2,
                  read_disable_bit |-> {0}, write_disable_bit |-> {1}],
      DATA   |-> [block |-> 2, bit_offset |-> 0, bit_width |-> 2,
                  read_disable_bit |-> {1}, write_disable_bit |-> {2}] ]

\* A name no field has.
UnknownName == "BOGUS"

VARIABLES
    committed,            \* Block.committed_bytes: what the hardware holds
    pending,              \* Block.pending_bytes: what is staged
    force_write_always,   \* efuses.force_write_always
    op,                   \* the command run
    args,                 \* its parsed command line
    pc,                   \* where it is
    i,                    \* its loop index
    raise_error,          \* its raise_error flag
    result,               \* how it ended ("NONE" while it runs)
    hist                  \* what it has done so far (observation only)

vars == <<committed, pending, force_write_always, op, args, pc, i,
          raise_error, result, hist>>

hw == <<committed, pending, force_write_always>>

\* ------------------------------------------------- collaborators: fields
\* Field.is_readable / Field.is_writeable: the field's bit in RD_DIS resp.
\* WR_DIS, as the hardware holds it, is clear (or the field has none).
Readable(com, name) ==
    \A k \in Efuse[name].read_disable_bit :
        BufBit(com[0], Efuse.RD_DIS.bit_offset + k) = 0

Writeable(com, name) ==
    \A k \in Efuse[name].write_disable_bit :
        BufBit(com[0], Efuse.WR_DIS.bit_offset + k) = 0

is_readable(name) == Readable(committed, name)

is_writeable(name) == Writeable(committed, name)

\* The bit positions of a field in its block.
FieldBits(name) ==
    Efuse[name].bit_offset .. (Efuse[name].bit_offset + Efuse[name].bit_width - 1)

\* Field.convert_to_bitstring: the value as bit_width bits.
convert_to_bitstring(name, value) ==
    [k \in 0..(Efuse[name].bit_width - 1) |-> Bit(value, k)]

\* Field.get_bitstring: the field's bits as read from the hardware; a
\* read-protected field reads as zeros.
ReadBack(com, name) ==
    [k \in 0..(Efuse[name].bit_width - 1) |->
        IF Readable(com, name)
        THEN BufBit(com[Efuse[name].block], Efuse[name].bit_offset + k)
        ELSE 0]

get_bitstring(name) == ReadBack(committed, name)

\* Field.save: the encoded value written over the field's bits of the
\* pending buffer of its block.
FieldSave(pend, name, value) ==
    LET b == Efuse[name].block
        off == Efuse[name].bit_offset
    IN  [pend EXCEPT ![b] =
            BufOf([x \in 0..(8 * Len(pend[b]) - 1) |->
                      IF x \in FieldBits(name) THEN Bit(value, x - off)
                      ELSE BufBit(pend[b], x)],
                  Len(pend[b]))]

\* The pending buffers with bit x of BLOCK0 set.
SetBlock0Bit(pend, x) ==
    [pend EXCEPT ![0] =
        BufOf([y \in 0..(8 * Len(pend[0]) - 1) |->
                  IF y = x THEN 1 ELSE BufBit(pend[0], y)],
              Len(pend[0]))]

\* Field.disable_read / Field.disable_write: the field's protection bit
\* staged in RD_DIS resp. WR_DIS.
disable_read(pend, name) ==
    LET k == CHOOSE k \in Efuse[name].read_disable_bit : TRUE
    IN  SetBlock0Bit(pend, Efuse.RD_DIS.bit_offset + k)

disable_write(pend, name) ==
    LET k == CHOOSE k \in Efuse[name].write_disable_bit : TRUE
    IN  SetBlock0Bit(pend, Efuse.WR_DIS.bit_offset + k)

\* Block.save: the buffer becomes the block's pending buffer.
BlockSave(pend, b, data) == [pend EXCEPT ![b] = data]

\* ----------------------------------------------- collaborators: hardware
\* A bit of a block can be burned unless it lies in a write-protected field.
BitWritable(com, b, x) ==
    \A name \in EfuseNames :
        (Efuse[name].block = b /\ x \in FieldBits(name)) => Writeable(com, name)

\* One block after the hardware write: bits only go from 0 to 1, and only
\* where no write protection forbids it.
BurnBlock(com, pend, b) ==
    BufOf([x \in 0..(8 * Len(com[b]) - 1) |->
              IF \/ BufBit(com[b], x) = 1
                 \/ (x < 8 * Len(pend[b]) /\ BufBit(pend[b], x) = 1
                     /\ BitWritable(com, b, x))
              THEN 1 ELSE 0],
          Len(com[b]))

\* EspEfuses.burn_all that succeeds: every block is burned (BLOCK0, with the
\* protection bits, last) and read again.
BurnAll(com, pend) == [b \in BlockIds |-> BurnBlock(com, pend, b)]

\* EspEfuses.burn_all that fails (a transport error): the blocks from k up
\* were burned before the error.
BurnPartly(com, pend, k) ==
    [b \in BlockIds |-> IF b >= k THEN BurnBlock(com, pend, b) ELSE com[b]]

\* util.check_duplicate_name_in_list raises when a name is repeated.
HasDuplicate(names) ==
    \E a, b \in 1..Len(names) : a < b /\ names[a] = names[b]

\* -------------------------------------------------------------- history
\* What the running command has done, for the properties to read: the
\* number of burn_all calls, the targets staged, the fields the checking
\* loop looked at and those whose read-back it compared, how burn_all
\* ended, the warnings and mismatches printed, and the state of the
\* EspEfuses object when the command started.
NewHist ==
    [burns |-> 0, staged |-> {}, checked |-> {}, compared |-> {},
     commit |-> "none", warned |-> {}, reported |-> {},
     entry |-> [committed |-> committed, pending |-> pending,
                force_write_always |-> force_write_always]]

NoArgs ==
    [names |-> <<>>, values |-> <<>>, cli |-> <<>>, offset |-> 0,
     data |-> <<>>, bits |-> <<>>, fwa |-> FALSE]

SeqsUpTo(S, n) == UNION {[1..k -> S] : k \in 1..n}

\* ------------------------------------------------------------------ Init
\* The chips of the model: blank or with one protection bit burned, and
\* with the data blocks blank or KEY_A and DATA burned to 2.
Blank == [b \in BlockIds |-> Zeros(get_block_len(b))]

ProtectionBits ==
    {Efuse.RD_DIS.bit_offset + k : k \in 0..(Efuse.RD_DIS.bit_width - 1)}
    \cup {Efuse.WR_DIS.bit_offset + k : k \in 0..(Efuse.WR_DIS.bit_width - 1)}

Chips ==
    {BurnAll(Blank, c) :
        c \in {Blank, FieldSave(FieldSave(Blank, "KEY_A", 2), "DATA", 2)}}
    \cup {BurnAll(Blank, SetBlock0Bit(Blank, x)) : x \in ProtectionBits}
    \cup {BurnAll(BurnAll(Blank, FieldSave(FieldSave(Blank, "KEY_A", 2), "DATA", 2)),
                  SetBlock0Bit(Blank, x)) : x \in ProtectionBits}

\* The EspEfuses object just built from the chip: nothing staged.
Init ==
    /\ committed \in Chips
    /\ pending = committed
    /\ force_write_always = FALSE
    /\ op = "none"
    /\ args = NoArgs
    /\ pc = "idle"
    /\ i = 1
    /\ raise_error = FALSE
    /\ result = "NONE"
    /\ hist = NewHist

\* The command starts once.
CanCall == pc = "idle"

\* A command starts: the common part of every Call action.
Enter(name, a) ==
    /\ op' = name
    /\ args' = a
    /\ i' = 1
    /\ raise_error' = FALSE

\* A command ends with this result.
Finish(r) == pc' = "done" /\ result' = r


\* -------------------------------------------------------------- burn_efuse
\* The values tried for a field: single bits of it.
Values(name) == IF name = "WR_DIS" THEN {1, 2, 4} ELSE {1, 2}

\* The command line: NAME VALUE pairs.  (A lone NAME, lines 50-56, is the
\* pair of NAME and the value the field-value checker supplies for it.)
CliPairs == {<<n, v>> : n \in EfuseNames \cup {UnknownName}, v \in {1, 2, 4}}

\* ActionEfuseValuePair.__call__, lines 41-49: the pairs go into a dict, so a
\* repeated name keeps its first place and takes its last value.
RECURSIVE DictKeys(_)
DictKeys(cli) ==
    IF cli = <<>> THEN <<>>
    ELSE LET front == DictKeys(SubSeq(cli, 1, Len(cli) - 1))
             name == cli[Len(cli)][1]
         IN  IF name \in Range(front) THEN front ELSE Append(front, name)

DictValue(cli, name) ==
    LET last == CHOOSE k \in 1..Len(cli) :
                    /\ cli[k][1] = name
                    /\ \A m \in (k + 1)..Len(cli) : cli[m][1] # name
    IN  cli[last][2]

DictValues(cli) ==
    [k \in 1..Len(DictKeys(cli)) |-> DictValue(cli, DictKeys(cli)[k])]

\* check_efuse_name, lines 37-39: every name must be a field's.
CliNamesKnown(cli) == \A k \in 1..Len(cli) : cli[k][1] \in EfuseNames

SymDiff(A, B) == (A \ B) \cup (B \ A)

\* Lines 133-142 for one block: attention and blocked_efuses_after_burn, which
\* are set for a touched block with a coding scheme and else keep the values
\* the previous blocks left.
block_attention(b, names, att) ==
    LET burn_list_a_block == {n \in Range(names) : Efuse[n].block = b}
        using_the_same_block_names == {n \in EfuseNames : Efuse[n].block = b}
    IN  IF burn_list_a_block # {} /\ get_coding_scheme(b) # CODING_SCHEME_NONE
        THEN [attention |-> TRUE,
              blocked |-> SymDiff(using_the_same_block_names, burn_list_a_block)]
        ELSE att

\* Lines 118-122 and 132-144: the blocks that get the ATTENTION text, each
\* with the names printed.
RECURSIVE print_attention(_, _, _)
print_attention(b, names, att) ==
    IF b \notin BlockIds THEN {}
    ELSE LET now == block_attention(b, names, att)
             touched == \E n \in Range(names) : Efuse[n].block = b
         IN  (IF touched /\ now.attention /\ now.blocked # {}
              THEN {<<b, now.blocked>>} ELSE {})
             \cup print_attention(b + 1, names, now)

\* Lines 124-128: the error raised before anything is staged, or "OK".
burn_efuse_check(efuse_name_list) ==
    IF \E n \in Range(efuse_name_list) : n \notin EfuseNames THEN "UnknownField"
    ELSE IF HasDuplicate(efuse_name_list) THEN "DuplicateName"
    ELSE "OK"

\* The parser's action, then lines 124-144.
burn_efuse_Call ==
    /\ CanCall
    /\ \E cli \in SeqsUpTo(CliPairs, MaxNames) :
          /\ \A k \in 1..Len(cli) :
                cli[k][1] \in EfuseNames => cli[k][2] \in Values(cli[k][1])
          /\ \A k \in 1..Len(cli) : cli[k][1] = UnknownName => cli[k][2] = 1
          /\ IF ~CliNamesKnown(cli)
             THEN /\ Enter("burn_efuse", [NoArgs EXCEPT !.cli = cli])
                  /\ hist' = NewHist
                  /\ Finish("UnknownField")
             ELSE LET efuse_name_list == DictKeys(cli)
                      new_value_list == DictValues(cli)
                      err == burn_efuse_check(efuse_name_list)
                  IN  /\ Enter("burn_efuse",
                               [NoArgs EXCEPT !.cli = cli,
                                              !.names = efuse_name_list,
                                              !.values = new_value_list])
                      /\ IF err # "OK"
                         THEN hist' = NewHist /\ Finish(err)
                         ELSE /\ hist' = [NewHist EXCEPT !.warned =
                                    print_attention(0, efuse_name_list,
                                        [attention |-> FALSE, blocked |-> {}])]
                              /\ pc' = "be_save"
                              /\ result' = "NONE"
    /\ UNCHANGED hw

\* Lines 147-149: one iteration.
burn_efuse_Save ==
    /\ pc = "be_save"
    /\ pending' = FieldSave(pending, args.names[i], args.values[i])
    /\ hist' = [hist EXCEPT !.staged = @ \cup {args.names[i]}]
    /\ i' = i + 1
    /\ pc' = IF i = Len(args.names) THEN "be_burn" ELSE "be_save"
    /\ UNCHANGED <<committed, force_write_always, op, args, raise_error, result>>

\* Line 151, burn_all succeeding.
burn_efuse_Burn ==
    /\ pc = "be_burn"
    /\ committed' = BurnAll(committed, pending)
    /\ pending' = committed'
    /\ hist' = [hist EXCEPT !.burns = @ + 1, !.commit = "ok"]
    /\ pc' = "be_check"
    /\ i' = 1
    /\ UNCHANGED <<force_write_always, op, args, raise_error, result>>

\* A burn_efuse that catches the error of burn_all and goes on to check.
burn_efuse_BurnFails_caught ==
    /\ pc = "be_burn"
    /\ \E k \in 1..3 : committed' = BurnPartly(committed, pending, k)
    /\ hist' = [hist EXCEPT !.burns = @ + 1, !.commit = "failed"]
    /\ pc' = "be_check"
    /\ i' = 1
    /\ UNCHANGED <<pending, force_write_always, op, args, raise_error, result>>

\* Line 151, burn_all raising.
burn_efuse_BurnFails ==
    /\ pc = "be_burn"
    /\ \E k \in 1..3 : committed' = BurnPartly(committed, pending, k)
    /\ hist' = [hist EXCEPT !.burns = @ + 1, !.commit = "failed"]
    /\ Finish("COMMIT_FAILED")
    /\ UNCHANGED <<pending, force_write_always, op, args, i, raise_error>>

\* A checking loop that compares unreadable fields too.
burn_efuse_mismatch_reads_protected(name, new_value) ==
    get_bitstring(name) # convert_to_bitstring(name, new_value)

\* Lines 156-163: whether the field counts as a mismatch.
burn_efuse_mismatch(name, new_value) ==
    /\ is_readable(name)
    /\ get_bitstring(name) # convert_to_bitstring(name, new_value)

\* A checking loop that leaves at the first mismatch.
burn_efuse_Check_stops ==
    /\ pc = "be_check"
    /\ LET name == args.names[i]
           bad == burn_efuse_mismatch(name, args.values[i])
       IN  /\ raise_error' = (raise_error \/ bad)
           /\ hist' = [hist EXCEPT
                  !.checked = @ \cup {name},
                  !.compared = IF is_readable(name) THEN @ \cup {name} ELSE @,
                  !.reported = IF bad THEN @ \cup {name} ELSE @]
           /\ pc' = IF bad \/ i = Len(args.names) THEN "be_report" ELSE "be_check"
    /\ i' = i + 1
    /\ UNCHANGED <<hw, op, args, result>>

\* Lines 155-163: one iteration.
burn_efuse_Check ==
    /\ pc = "be_check"
    /\ LET name == args.names[i]
           bad == burn_efuse_mismatch(name, args.values[i])
       IN  /\ raise_error' = (raise_error \/ bad)
           /\ hist' = [hist EXCEPT
                  !.checked = @ \cup {name},
                  !.compared = IF is_readable(name) THEN @ \cup {name} ELSE @,
                  !.reported = IF bad THEN @ \cup {name} ELSE @]
    /\ i' = i + 1
    /\ pc' = IF i = Len(args.names) THEN "be_report" ELSE "be_check"
    /\ UNCHANGED <<hw, op, args, result>>

\* Lines 164-167.
burn_efuse_Report ==
    /\ pc = "be_report"
    /\ Finish(IF raise_error THEN "VERIFICATION_FAILED" ELSE "VERIFIED")
    /\ UNCHANGED <<hw, op, args, i, raise_error, hist>>

\* ------------------------------------------------------ read_protect_efuse
\* Lines 69 and 73: the names the parser accepts.
ReadProtectChoices == {n \in EfuseNames : Efuse[n].read_disable_bit # {}}

WriteProtectChoices == {n \in EfuseNames : Efuse[n].write_disable_bit # {}}

\* The parser's choices, then line 171: the error, or "OK".
protect_check(efuse_name, choices) ==
    IF \E n \in Range(efuse_name) : n \notin choices THEN "UnknownField"
    ELSE IF HasDuplicate(efuse_name) THEN "DuplicateName"
    ELSE "OK"

\* The parser, then line 171.
read_protect_efuse_Call ==
    /\ CanCall
    /\ \E efuse_name \in SeqsUpTo(ReadProtectChoices \cup {UnknownName}, MaxNames) :
          /\ Enter("read_protect_efuse", [NoArgs EXCEPT !.names = efuse_name])
          /\ hist' = NewHist
          /\ LET err == protect_check(efuse_name, ReadProtectChoices)
             IN  IF err = "OK" THEN pc' = "rp_loop" /\ result' = "NONE"
                 ELSE Finish(err)
    /\ UNCHANGED hw

\* A read-protect loop that passes over an already protected field, as the
\* write-protect loop does.
read_protect_efuse_Loop_continues ==
    /\ pc = "rp_loop"
    /\ IF ~is_readable(args.names[i])
       THEN UNCHANGED <<pending, hist>>
       ELSE /\ pending' = disable_read(pending, args.names[i])
            /\ hist' = [hist EXCEPT !.staged = @ \cup {args.names[i]}]
    /\ i' = i + 1
    /\ pc' = IF i = Len(args.names) THEN "rp_burn" ELSE "rp_loop"
    /\ UNCHANGED <<committed, force_write_always, op, args, raise_error, result>>

\* Lines 173-183: one iteration; an already protected field ends the command.
read_protect_efuse_Loop ==
    /\ pc = "rp_loop"
    /\ IF ~is_readable(args.names[i])
       THEN /\ Finish("ALREADY_PROTECTED")
            /\ UNCHANGED <<pending, hist, i>>
       ELSE /\ pending' = disable_read(pending, args.names[i])
            /\ hist' = [hist EXCEPT !.staged = @ \cup {args.names[i]}]
            /\ i' = i + 1
            /\ pc' = IF i = Len(args.names) THEN "rp_burn" ELSE "rp_loop"
            /\ UNCHANGED result
    /\ UNCHANGED <<committed, force_write_always, op, args, raise_error>>

\* Line 184, burn_all succeeding.
read_protect_efuse_Burn ==
    /\ pc = "rp_burn"
    /\ committed' = BurnAll(committed, pending)
    /\ pending' = committed'
    /\ hist' = [hist EXCEPT !.burns = @ + 1, !.commit = "ok"]
    /\ pc' = "rp_check"
    /\ i' = 1
    /\ UNCHANGED <<force_write_always, op, args, raise_error, result>>

\* Line 184, burn_all raising.
read_protect_efuse_BurnFails ==
    /\ pc = "rp_burn"
    /\ \E k \in 1..3 : committed' = BurnPartly(committed, pending, k)
    /\ hist' = [hist EXCEPT !.burns = @ + 1, !.commit = "failed"]
    /\ Finish("COMMIT_FAILED")
    /\ UNCHANGED <<pending, force_write_always, op, args, i, raise_error>>

\* A checking loop that never finds a field unprotected.
read_protect_failed_never(name) == FALSE

\* Lines 190-192: the field is still readable.
read_protect_failed(name) == is_readable(name)

\* Lines 188-192: one iteration.
read_protect_efuse_Check ==
    /\ pc = "rp_check"
    /\ LET bad == read_protect_failed(args.names[i])
       IN  /\ raise_error' = (raise_error \/ bad)
           /\ hist' = [hist EXCEPT
                  !.checked = @ \cup {args.names[i]},
                  !.reported = IF bad THEN @ \cup {args.names[i]} ELSE @]
    /\ i' = i + 1
    /\ pc' = IF i = Len(args.names) THEN "rp_report" ELSE "rp_check"
    /\ UNCHANGED <<hw, op, args, result>>

\* Lines 193-196.
read_protect_efuse_Report ==
    /\ pc = "rp_report"
    /\ Finish(IF raise_error THEN "VERIFICATION_FAILED" ELSE "VERIFIED")
    /\ UNCHANGED <<hw, op, args, i, raise_error, hist>>

\* ----------------------------------------------------- write_protect_efuse
\* The parser, then line 200.
write_protect_efuse_Call ==
    /\ CanCall
    /\ \E efuse_name \in SeqsUpTo(WriteProtectChoices \cup {UnknownName}, MaxNames) :
          /\ Enter("write_protect_efuse", [NoArgs EXCEPT !.names = efuse_name])
          /\ hist' = NewHist
          /\ LET err == protect_check(efuse_name, WriteProtectChoices)
             IN  IF err = "OK" THEN pc' = "wp_loop" /\ result' = "NONE"
                 ELSE Finish(err)
    /\ UNCHANGED hw

\* A write-protect loop that ends the command at an already protected field,
\* as the read-protect loop does.
write_protect_efuse_Loop_returns ==
    /\ pc = "wp_loop"
    /\ IF ~is_writeable(args.names[i])
       THEN /\ Finish("ALREADY_PROTECTED")
            /\ UNCHANGED <<pending, hist, i>>
       ELSE /\ pending' = disable_write(pending, args.names[i])
            /\ hist' = [hist EXCEPT !.staged = @ \cup {args.names[i]}]
            /\ i' = i + 1
            /\ pc' = IF i = Len(args.names) THEN "wp_burn" ELSE "wp_loop"
            /\ UNCHANGED result
    /\ UNCHANGED <<committed, force_write_always, op, args, raise_error>>

\* Lines 201-210: one iteration; an already protected field is passed over.
write_protect_efuse_Loop ==
    /\ pc = "wp_loop"
    /\ IF ~is_writeable(args.names[i])
       THEN UNCHANGED <<pending, hist>>
       ELSE /\ pending' = disable_write(pending, args.names[i])
            /\ hist' = [hist EXCEPT !.staged = @ \cup {args.names[i]}]
    /\ i' = i + 1
    /\ pc' = IF i = Len(args.names) THEN "wp_burn" ELSE "wp_loop"
    /\ UNCHANGED <<committed, force_write_always, op, args, raise_error, result>>

\* Line 211, burn_all succeeding.
write_protect_efuse_Burn ==
    /\ pc = "wp_burn"
    /\ committed' = BurnAll(committed, pending)
    /\ pending' = committed'
    /\ hist' = [hist EXCEPT !.burns = @ + 1, !.commit = "ok"]
    /\ pc' = "wp_check"
    /\ i' = 1
    /\ UNCHANGED <<force_write_always, op, args, raise_error, result>>

\* Line 211, burn_all raising.
write_protect_efuse_BurnFails ==
    /\ pc = "wp_burn"
    /\ \E k \in 1..3 : committed' = BurnPartly(committed, pending, k)
    /\ hist' = [hist EXCEPT !.burns = @ + 1, !.commit = "failed"]
    /\ Finish("COMMIT_FAILED")
    /\ UNCHANGED <<pending, force_write_always, op, args, i, raise_error>>

\* A checking loop that never finds a field unprotected.
write_protect_failed_never(name) == FALSE

\* Lines 217-219: the field is still writeable.
write_protect_failed(name) == is_writeable(name)

\* Lines 215-219: one iteration.
write_protect_efuse_Check ==
    /\ pc = "wp_check"
    /\ LET bad == write_protect_failed(args.names[i])
       IN  /\ raise_error' = (raise_error \/ bad)
           /\ hist' = [hist EXCEPT
                  !.checked = @ \cup {args.names[i]},
                  !.reported = IF bad THEN @ \cup {args.names[i]} ELSE @]
    /\ i' = i + 1
    /\ pc' = IF i = Len(args.names) THEN "wp_report" ELSE "wp_check"
    /\ UNCHANGED <<hw, op, args, result>>

\* Lines 220-223.
write_protect_efuse_Report ==
    /\ pc = "wp_report"
    /\ Finish(IF raise_error THEN "VERIFICATION_FAILED" ELSE "VERIFIED")
    /\ UNCHANGED <<hw, op, args, i, raise_error, hist>>

\* --------------------------------------------------------- burn_block_data
\* The data files of the model: the bytes 1, 2, 3, ..., one byte shorter
\* than BLOCK1, as long as BLOCK1, and as long as BLOCK2.
Payload(p) == [k \in 1..p |-> k]

Payloads == {Payload(p) : p \in (BlockBytes - 1)..(BlockBytes + 1)}

\* The offsets of the model: none, inside both blocks, the length of BLOCK1,
\* the length of BLOCK2.
Offsets == {0, 1, BlockBytes, BlockBytes + 1}

\* The checks with the offset compared by > instead of >=.
bbd_check_off_by_one(block_name_list, datafile_list, offset) ==
    IF HasDuplicate(block_name_list) THEN "DuplicateName"
    ELSE IF offset # 0 /\ Len(block_name_list) > 1 THEN "OffsetConflict"
    ELSE IF offset # 0
            /\ offset > get_block_len(get_index_block_by_name(block_name_list[1]))
         THEN "OffsetConflict"
    ELSE IF Len(block_name_list) # Len(datafile_list) THEN "ListLengthMismatch"
    ELSE "OK"

\* Lines 231-243: the checks before the loop; the error raised, or "OK".
bbd_check(block_name_list, datafile_list, offset) ==
    IF HasDuplicate(block_name_list) THEN "DuplicateName"
    ELSE IF offset # 0 /\ Len(block_name_list) > 1 THEN "OffsetConflict"
    ELSE IF offset # 0
            /\ offset >= get_block_len(get_index_block_by_name(block_name_list[1]))
         THEN "OffsetConflict"
    ELSE IF Len(block_name_list) # Len(datafile_list) THEN "ListLengthMismatch"
    ELSE "OK"

\* Python's b'\x00' * n: empty for n <= 0.
ZeroBytes(n) == IF n > 0 THEN Zeros(n) ELSE <<>>

\* The padding without the zero bytes after the data.
bbd_pad_left_only(data, offset, num_bytes) ==
    IF offset # 0 THEN ZeroBytes(offset) \o data ELSE data

\* Lines 250-252: the padding, done only for a non-zero offset.
bbd_pad(data, offset, num_bytes) ==
    IF offset # 0
    THEN LET d == ZeroBytes(offset) \o data
         IN  d \o ZeroBytes(num_bytes - Len(d))
    ELSE data

\* Lines 227-243.
burn_block_data_Call ==
    /\ CanCall
    /\ \E blocks \in SeqsUpTo(BURN_BLOCK_DATA_NAMES, MaxNames),
          datafiles \in SeqsUpTo(Payloads, MaxNames),
          offset \in Offsets, fwa \in BOOLEAN :
          /\ Len(datafiles) \in {Len(blocks), Len(blocks) - 1}
          /\ Enter("burn_block_data",
                   [NoArgs EXCEPT !.names = blocks, !.data = datafiles,
                                  !.offset = offset, !.fwa = fwa])
          /\ force_write_always' = fwa
          /\ hist' = NewHist
          /\ LET err == bbd_check(blocks, datafiles, offset)
             IN  IF err = "OK" THEN pc' = "bbd_loop" /\ result' = "NONE"
                 ELSE Finish(err)
    /\ UNCHANGED <<committed, pending>>

\* A loop that burns each block as soon as it is saved.
burn_block_data_Loop_burning ==
    /\ pc = "bbd_loop"
    /\ LET block == get_index_block_by_name(args.names[i])
           num_bytes == get_block_len(block)
           data == bbd_pad(args.data[i], args.offset, num_bytes)
       IN  IF Len(data) # num_bytes
           THEN /\ Finish("SizeMismatch")
                /\ UNCHANGED <<committed, pending, hist, i>>
           ELSE /\ committed' = BurnAll(committed, BlockSave(pending, block, data))
                /\ pending' = committed'
                /\ hist' = [hist EXCEPT !.staged = @ \cup {args.names[i]},
                                        !.burns = @ + 1, !.commit = "ok"]
                /\ i' = i + 1
                /\ pc' = IF i = Len(args.names) THEN "bbd_burn" ELSE "bbd_loop"
                /\ UNCHANGED result
    /\ UNCHANGED <<force_write_always, op, args, raise_error>>

\* A loop that saves the data without the length check of lines 253-255.
burn_block_data_Loop_unchecked ==
    /\ pc = "bbd_loop"
    /\ LET block == get_index_block_by_name(args.names[i])
           num_bytes == get_block_len(block)
           data == bbd_pad(args.data[i], args.offset, num_bytes)
       IN  /\ pending' = BlockSave(pending, block, data)
           /\ hist' = [hist EXCEPT !.staged = @ \cup {args.names[i]}]
           /\ i' = i + 1
           /\ pc' = IF i = Len(args.names) THEN "bbd_burn" ELSE "bbd_loop"
           /\ UNCHANGED result
    /\ UNCHANGED <<committed, force_write_always, op, args, raise_error>>

\* Lines 245-257: one iteration of the loop.
burn_block_data_Loop ==
    /\ pc = "bbd_loop"
    /\ LET block == get_index_block_by_name(args.names[i])
           num_bytes == get_block_len(block)
           data == bbd_pad(args.data[i], args.offset, num_bytes)
       IN  IF Len(data) # num_bytes
           THEN /\ Finish("SizeMismatch")
                /\ UNCHANGED <<pending, hist, i>>
           ELSE /\ pending' = BlockSave(pending, block, data)
                /\ hist' = [hist EXCEPT !.staged = @ \cup {args.names[i]}]
                /\ i' = i + 1
                /\ pc' = IF i = Len(args.names) THEN "bbd_burn" ELSE "bbd_loop"
                /\ UNCHANGED result
    /\ UNCHANGED <<committed, force_write_always, op, args, raise_error>>

\* A burn_all followed by a comparison of the blocks with what was staged.
burn_block_data_Burn_verifies ==
    /\ pc = "bbd_burn"
    /\ committed' = BurnAll(committed, pending)
    /\ pending' = committed'
    /\ hist' = [hist EXCEPT !.burns = @ + 1, !.commit = "ok"]
    /\ Finish(IF committed' = pending THEN "COMMITTED" ELSE "VERIFICATION_FAILED")
    /\ UNCHANGED <<force_write_always, op, args, i, raise_error>>

\* Line 258, burn_all succeeding, and line 259.
burn_block_data_Burn ==
    /\ pc = "bbd_burn"
    /\ committed' = BurnAll(committed, pending)
    /\ pending' = committed'
    /\ hist' = [hist EXCEPT !.burns = @ + 1, !.commit = "ok"]
    /\ Finish("COMMITTED")
    /\ UNCHANGED <<force_write_always, op, args, i, raise_error>>

\* A burn_all that is tried once more after it raised.
burn_block_data_BurnFails_retry ==
    /\ pc = "bbd_burn"
    /\ \E k \in 1..3 : committed' = BurnPartly(committed, pending, k)
    /\ hist' = [hist EXCEPT !.burns = @ + 1, !.commit = "failed"]
    /\ IF hist.burns = 0
       THEN pc' = "bbd_burn" /\ result' = "NONE"
       ELSE Finish("COMMIT_FAILED")
    /\ UNCHANGED <<pending, force_write_always, op, args, i, raise_error>>

\* Line 258, burn_all raising.
burn_block_data_BurnFails ==
    /\ pc = "bbd_burn"
    /\ \E k \in 1..3 : committed' = BurnPartly(committed, pending, k)
    /\ hist' = [hist EXCEPT !.burns = @ + 1, !.commit = "failed"]
    /\ Finish("COMMIT_FAILED")
    /\ UNCHANGED <<pending, force_write_always, op, args, i, raise_error>>

\* ---------------------------------------------------------------- burn_bit
\* BitString.set(True, pos) on a string of n bits: a negative position
\* counts from the end; a position outside the string raises IndexError.
BitPos(p, n) == IF p < 0 THEN p + n ELSE p

BitStringSetRaises(n, positions) ==
    \E p \in Range(positions) : BitPos(p, n) \notin 0..(n - 1)

\* The n zero bits with the given positions set; position 0 is the leftmost.
BitStringSet(n, positions) ==
    [q \in 0..(n - 1) |->
        IF \E p \in Range(positions) : BitPos(p, n) = q THEN 1 ELSE 0]

\* BitString.reverse: the bit order of the whole string reversed.
BitStringReverse(bs, n) == [q \in 0..(n - 1) |-> bs[n - 1 - q]]

\* BitString.bytes: eight bits a byte, the leftmost bit the most significant.
BitStringBytes(bs, n) ==
    [k \in 1..(n \div 8) |->
        128 * bs[8 * (k - 1)] + 64 * bs[8 * (k - 1) + 1]
        + 32 * bs[8 * (k - 1) + 2] + 16 * bs[8 * (k - 1) + 3]
        + 8 * bs[8 * (k - 1) + 4] + 4 * bs[8 * (k - 1) + 5]
        + 2 * bs[8 * (k - 1) + 6] + bs[8 * (k - 1) + 7]]

\* The bytes staged when the byte order is not reversed after the bit order.
bit_data_one_reversal(num_bytes, bit_number) ==
    BitStringBytes(
        BitStringReverse(BitStringSet(num_bytes * 8, bit_number), num_bytes * 8),
        num_bytes * 8)

\* Lines 265-275: the bytes burn_bit stages.
bit_data(num_bytes, bit_number) ==
    Reverse(BitStringBytes(
        BitStringReverse(BitStringSet(num_bytes * 8, bit_number), num_bytes * 8),
        num_bytes * 8))

\* The bit numbers tried: around both ends of the block, from both sides.
BitChoices(num_bytes) ==
    {0 - (8 * num_bytes) - 1, 0 - 1, 0, 9, 8 * num_bytes - 1, 8 * num_bytes}

\* Lines 263-270.
burn_bit_Call ==
    /\ CanCall
    /\ \E block \in BURN_BLOCK_DATA_NAMES :
       \E bit_number \in
             SeqsUpTo(BitChoices(get_block_len(get_index_block_by_name(block))),
                      MaxNames) :
          /\ Enter("burn_bit",
                   [NoArgs EXCEPT !.names = <<block>>, !.bits = bit_number])
          /\ hist' = NewHist
          /\ IF BitStringSetRaises(
                    get_block_len(get_index_block_by_name(block)) * 8, bit_number)
             THEN Finish("BitIndexOutOfRange")
             ELSE pc' = "bb_save" /\ result' = "NONE"
    /\ UNCHANGED <<committed, pending, force_write_always>>

\* Lines 271-275.
burn_bit_Save ==
    /\ pc = "bb_save"
    /\ LET block == get_index_block_by_name(args.names[1])
       IN  pending' = BlockSave(pending, block,
                                bit_data(get_block_len(block), args.bits))
    /\ hist' = [hist EXCEPT !.staged = @ \cup {args.names[1]}]
    /\ pc' = "bb_burn"
    /\ UNCHANGED <<committed, force_write_always, op, args, i,
                   raise_error, result>>

\* Line 276, burn_all succeeding, and line 277.
burn_bit_Burn ==
    /\ pc = "bb_burn"
    /\ committed' = BurnAll(committed, pending)
    /\ pending' = committed'
    /\ hist' = [hist EXCEPT !.burns = @ + 1, !.commit = "ok"]
    /\ Finish("COMMITTED")
    /\ UNCHANGED <<force_write_always, op, args, i, raise_error>>

\* Line 276, burn_all raising.
burn_bit_BurnFails ==
    /\ pc = "bb_burn"
    /\ \E k \in 1..3 : committed' = BurnPartly(committed, pending, k)
    /\ hist' = [hist EXCEPT !.burns = @ + 1, !.commit = "failed"]
    /\ Finish("COMMIT_FAILED")
    /\ UNCHANGED <<pending, force_write_always, op, args, i, raise_error>>

\* ------------------------------------------------------------------ Next
Next ==
    \/ burn_efuse_Call
    \/ burn_efuse_Save
    \/ burn_efuse_Burn
    \/ burn_efuse_BurnFails
    \/ burn_efuse_Check
    \/ burn_efuse_Report
    \/ read_protect_efuse_Call
    \/ read_protect_efuse_Loop
    \/ read_protect_efuse_Burn
    \/ read_protect_efuse_BurnFails
    \/ read_protect_efuse_Check
    \/ read_protect_efuse_Report
    \/ write_protect_efuse_Call
    \/ write_protect_efuse_Loop
    \/ write_protect_efuse_Burn
    \/ write_protect_efuse_BurnFails
    \/ write_protect_efuse_Check
    \/ write_protect_efuse_Report
    \/ burn_block_data_Call
    \/ burn_block_data_Loop
    \/ burn_block_data_Burn
    \/ burn_block_data_BurnFails
    \/ burn_bit_Call
    \/ burn_bit_Save
    \/ burn_bit_Burn
    \/ burn_bit_BurnFails

Spec == Init /\ [][Next]_vars

\* ================================================================ claims
\* The results that are validation errors.
ValidationErrors ==
    {"UnknownField", "DuplicateName", "SizeMismatch", "OffsetConflict",
     "BitIndexOutOfRange", "ListLengthMismatch"}

Done(command) == pc = "done" /\ op = command

\* The names of the command line of burn_efuse, in the order given.
CliNames(cli) == [k \in 1..Len(cli) |-> cli[k][1]]

\* ------------------------------------------------------------------- C1
\* A burn_efuse over distinct known fields, with no ATTENTION text printed,
\* that got as far as burn_all.
C1_ValueBurnRan ==
    /\ Done("burn_efuse")
    /\ result \in {"VERIFIED", "VERIFICATION_FAILED", "COMMIT_FAILED"}
    /\ ~HasDuplicate(CliNames(args.cli))
    /\ hist.warned = {}

\* C1 as stated: a value burn over distinct known fields with no hazard ends
\* VERIFIED if and only if burn_all succeeded and every target field reads
\* back, after the burn, as the intended encoded value.
C1_Original ==
    C1_ValueBurnRan =>
        (result = "VERIFIED" <=>
            /\ hist.commit = "ok"
            /\ \A k \in 1..Len(args.names) :
                  get_bitstring(args.names[k])
                      = convert_to_bitstring(args.names[k], args.values[k]))

\* C1 amended: a value burn over distinct known fields with no hazard ends
\* VERIFIED if and only if burn_all succeeded and every target field that is
\* readable after the burn reads back as the intended encoded value.
C1_VerifiedIffReadableMatch ==
    C1_ValueBurnRan =>
        (result = "VERIFIED" <=>
            /\ hist.commit = "ok"
            /\ \A k \in 1..Len(args.names) :
                  is_readable(args.names[k]) =>
                      get_bitstring(args.names[k])
                          = convert_to_bitstring(args.names[k], args.values[k]))

\* A value burn of two fields ends VERIFIED although one of them cannot be
\* read back.
C1_Witness ==
    /\ C1_ValueBurnRan
    /\ result = "VERIFIED"
    /\ Len(args.names) = 2
    /\ \E k \in 1..2 : ~is_readable(args.names[k])
    /\ \E k \in 1..2 : is_readable(args.names[k])

\* ------------------------------------------------------------------- C2
\* C2: in a command that ends with a validation error, burn_all was never
\* called: the hardware holds what it held when the command started.
C2_NoBurnOnValidationError ==
    result \in ValidationErrors =>
        /\ hist.burns = 0
        /\ hist.commit = "none"
        /\ committed = hist.entry.committed

\* A raw-block burn fails the size check after an earlier block was staged.
C2_Witness ==
    /\ Done("burn_block_data")
    /\ result = "SizeMismatch"
    /\ hist.staged # {}
    /\ hist.burns = 0

\* ------------------------------------------------------------------- C3
\* C3: a command that ends with a validation error leaves the pending buffer
\* of every block and force_write_always as they were when it started.
C3_NoSideEffects ==
    result \in ValidationErrors =>
        /\ pending = hist.entry.pending
        /\ force_write_always = hist.entry.force_write_always

\* ------------------------------------------------------------------- C4
\* The command line repeats a (known) name.
C4_RepeatsName ==
    \/ /\ op = "burn_efuse"
       /\ HasDuplicate(CliNames(args.cli))
       /\ Range(CliNames(args.cli)) \subseteq EfuseNames
    \/ /\ op = "read_protect_efuse"
       /\ HasDuplicate(args.names)
       /\ Range(args.names) \subseteq ReadProtectChoices
    \/ /\ op = "write_protect_efuse"
       /\ HasDuplicate(args.names)
       /\ Range(args.names) \subseteq WriteProtectChoices
    \/ /\ op = "burn_block_data"
       /\ HasDuplicate(args.names)

\* C4: in each of the four commands that take names, a command line that
\* repeats a name ends with the duplicate-name error, nothing staged.
C4_DuplicateAlwaysFails ==
    C4_RepeatsName =>
        /\ pc = "done"
        /\ result = "DuplicateName"
        /\ hist.staged = {}
        /\ pending = hist.entry.pending

\* ------------------------------------------------------------------- C5
\* C5: when burn_all fails, the command ends at once with the commit error:
\* the checking loop looks at no field, and no command reports success
\* without a burn_all that succeeded.
C5_CommitFailureSurfaces ==
    /\ hist.commit = "failed" =>
          /\ pc = "done"
          /\ result = "COMMIT_FAILED"
          /\ hist.checked = {}
          /\ hist.compared = {}
    /\ result \in {"VERIFIED", "COMMITTED"} => hist.commit = "ok"

\* burn_all failed in a value burn after its fields were staged.
C5_Witness ==
    /\ Done("burn_efuse")
    /\ result = "COMMIT_FAILED"
    /\ hist.staged # {}
    /\ hist.burns = 1

\* ------------------------------------------------------------------- C6
\* The buffer C6 describes: offset zero bytes, the payload, zero bytes.
C6_Expected(offset, data, num_bytes) ==
    [x \in 1..num_bytes |->
        IF x <= offset THEN 0
        ELSE IF x <= offset + Len(data) THEN data[x - offset]
        ELSE 0]

\* The raw-block burn passed the checks before its loop.
C6_InLoop ==
    /\ op = "burn_block_data"
    /\ result \notin {"DuplicateName", "OffsetConflict", "ListLengthMismatch"}

\* What C6 says of the k-th block, given whether its payload fits.
C6_Placed(k, fits) ==
    LET block == get_index_block_by_name(args.names[k])
        num_bytes == get_block_len(block)
    IN  IF fits
        THEN /\ ~(pc = "done" /\ result = "SizeMismatch" /\ i = k)
             /\ (i > k /\ pc \in {"bbd_loop", "bbd_burn"}) =>
                    pending[block] = C6_Expected(args.offset, args.data[k], num_bytes)
        ELSE /\ i <= k
             /\ args.names[k] \notin hist.staged
             /\ (pc = "done" /\ i = k) => result = "SizeMismatch"

\* C6 as stated: for every offset o with 0 <= o < L, the block is staged as
\* o zeros, the payload, zeros up to L when o + p <= L, and the burn fails with
\* the size error, the block not staged, when o + p > L.
C6_Original ==
    C6_InLoop =>
        \A k \in 1..Len(args.names) :
            LET num_bytes == get_block_len(get_index_block_by_name(args.names[k]))
            IN  (0 <= args.offset /\ args.offset < num_bytes) =>
                    C6_Placed(k, args.offset + Len(args.data[k]) <= num_bytes)

\* C6 amended: for 0 < o < L as stated; for o = 0 nothing is padded: the block
\* is staged, as the payload itself, only when p = L, and every other payload
\* length fails with the size error, the block not staged.
C6_PaddingOnlyWithOffset ==
    C6_InLoop =>
        \A k \in 1..Len(args.names) :
            LET num_bytes == get_block_len(get_index_block_by_name(args.names[k]))
            IN  (0 <= args.offset /\ args.offset < num_bytes) =>
                    C6_Placed(k, IF args.offset = 0
                                 THEN Len(args.data[k]) = num_bytes
                                 ELSE args.offset + Len(args.data[k]) <= num_bytes)

\* A payload shorter than the room after the offset was staged, padded on
\* both sides.
C6_Witness ==
    /\ op = "burn_block_data"
    /\ pc = "bbd_burn"
    /\ args.offset > 0
    /\ args.offset + Len(args.data[1])
          < get_block_len(get_index_block_by_name(args.names[1]))
    /\ pending[get_index_block_by_name(args.names[1])]
          = C6_Expected(args.offset, args.data[1],
                        get_block_len(get_index_block_by_name(args.names[1])))

\* ------------------------------------------------------------------- C7
\* C7: a raw-block burn over distinct blocks with a non-zero offset, and
\* either more than one block or an offset not below the length of its one
\* block, ends with the offset error, nothing staged, whatever the payloads.
C7_OffsetConflict ==
    (/\ op = "burn_block_data"
     /\ ~HasDuplicate(args.names)
     /\ args.offset # 0
     /\ \/ Len(args.names) > 1
        \/ args.offset >= get_block_len(get_index_block_by_name(args.names[1])))
    => /\ pc = "done"
       /\ result = "OffsetConflict"
       /\ hist.staged = {}
       /\ pending = hist.entry.pending

\* The offset is the length of the one target block.
C7_Witness ==
    /\ Done("burn_block_data")
    /\ result = "OffsetConflict"
    /\ Len(args.names) = 1
    /\ args.offset = get_block_len(get_index_block_by_name(args.names[1]))

\* ------------------------------------------------------------------- C8
\* C8: a single-bit burn whose bit numbers all lie in [0, 8L-1] stages and
\* burns; one with a bit number outside [0, 8L-1], above or negative, ends
\* with the bounds error, nothing staged, burn_all not called.
C8_BitRange ==
    op = "burn_bit" =>
        LET num_bytes == get_block_len(get_index_block_by_name(args.names[1]))
        IN  IF \A k \in 1..Len(args.bits) : args.bits[k] \in 0..(8 * num_bytes - 1)
            THEN result # "BitIndexOutOfRange"
            ELSE /\ pc = "done"
                 /\ result = "BitIndexOutOfRange"
                 /\ hist.staged = {}
                 /\ hist.burns = 0

\* ------------------------------------------------------------------- C9
\* C9: after a read-protect that ended VERIFIED, every field sharing the
\* read_disable_bit of a named field is unreadable, and likewise for
\* write-protect; and in no state is one field of a protection-bit group
\* protected and another not.
C9_Cascade ==
    /\ (Done("read_protect_efuse") /\ result = "VERIFIED") =>
          \A a \in Range(args.names) : \A b \in EfuseNames :
              Efuse[b].read_disable_bit = Efuse[a].read_disable_bit
                  => ~is_readable(b)
    /\ (Done("write_protect_efuse") /\ result = "VERIFIED") =>
          \A a \in Range(args.names) : \A b \in EfuseNames :
              Efuse[b].write_disable_bit = Efuse[a].write_disable_bit
                  => ~is_writeable(b)
    /\ \A a, b \in EfuseNames :
          /\ Efuse[a].read_disable_bit = Efuse[b].read_disable_bit
                => (is_readable(a) <=> is_readable(b))
          /\ Efuse[a].write_disable_bit = Efuse[b].write_disable_bit
                => (is_writeable(a) <=> is_writeable(b))

\* KEY_A alone was read-protected on a chip where it was readable, and KEY_B
\* is unreadable with it.
C9_Witness ==
    /\ Done("read_protect_efuse")
    /\ result = "VERIFIED"
    /\ args.names = <<"KEY_A">>
    /\ Readable(hist.entry.committed, "KEY_B")
    /\ ~is_readable("KEY_B")

\* ------------------------------------------------------------------ C10
\* C10: a read-protect whose list holds a field that is already read
\* protected never reaches burn_all or the checking loop: it ends, without an
\* error, at the first such field, and the hardware holds what it held.
C10_ReadProtectReturns ==
    (/\ op = "read_protect_efuse"
     /\ protect_check(args.names, ReadProtectChoices) = "OK"
     /\ \E k \in 1..Len(args.names) :
           ~Readable(hist.entry.committed, args.names[k]))
    => /\ pc \in {"rp_loop", "done"}
       /\ hist.burns = 0
       /\ hist.checked = {}
       /\ committed = hist.entry.committed
       /\ pc = "done" =>
             /\ result = "ALREADY_PROTECTED"
             /\ ~Readable(hist.entry.committed, args.names[i])
             /\ \A k \in 1..(i - 1) : Readable(hist.entry.committed, args.names[k])

\* The already protected field is the second of the list, after a field that
\* was staged.
C10_Witness ==
    /\ Done("read_protect_efuse")
    /\ result = "ALREADY_PROTECTED"
    /\ i = 2
    /\ hist.staged # {}


\* ------------------------------------------------------------------ C11
\* The names the write-protect loop has passed.
C11_Passed ==
    IF pc = "wp_loop" THEN 1..(i - 1)
    ELSE IF pc = "done" /\ result = "ALREADY_PROTECTED" THEN 1..(i - 1)
    ELSE 1..Len(args.names)

\* C11: the write-protect loop passes every name of the list: a field still
\* writeable when the loop reaches it has its write-protection bit staged,
\* wherever already protected fields stand in the list; an already protected
\* field is not staged; and the one burn_all follows the loop.
C11_WriteProtectContinues ==
    (/\ op = "write_protect_efuse"
     /\ protect_check(args.names, WriteProtectChoices) = "OK")
    => /\ result # "ALREADY_PROTECTED"
       /\ \A k \in C11_Passed :
             IF Writeable(hist.entry.committed, args.names[k])
             THEN /\ args.names[k] \in hist.staged
                  /\ hist.burns = 0 =>
                        pending = disable_write(pending, args.names[k])
             ELSE args.names[k] \notin hist.staged
       /\ pc = "wp_loop" => hist.burns = 0
       /\ pc \in {"wp_check", "wp_report", "done"} => hist.burns = 1

\* The first field of the list was already write protected and the second,
\* which was not, is staged for the burn.
C11_Witness ==
    /\ op = "write_protect_efuse"
    /\ pc = "wp_burn"
    /\ Len(args.names) = 2
    /\ ~Writeable(hist.entry.committed, args.names[1])
    /\ args.names[2] \in hist.staged
    /\ pending # hist.entry.pending

\* ------------------------------------------------------------------ C12
\* C12: when burn_all of a read-protect (write-protect) succeeded, the
\* command ends with the verification error if and only if a named field is
\* still readable (writeable) after the burn, and else reports success.
C12_ProtectionVerified ==
    /\ (Done("read_protect_efuse") /\ hist.commit = "ok") =>
          /\ result \in {"VERIFIED", "VERIFICATION_FAILED"}
          /\ result = "VERIFICATION_FAILED" <=>
                \E k \in 1..Len(args.names) : is_readable(args.names[k])
    /\ (Done("write_protect_efuse") /\ hist.commit = "ok") =>
          /\ result \in {"VERIFIED", "VERIFICATION_FAILED"}
          /\ result = "VERIFICATION_FAILED" <=>
                \E k \in 1..Len(args.names) : is_writeable(args.names[k])

\* A write-protect was burned without error and a named field is still
\* writeable: the command failed.
C12_Witness ==
    /\ Done("write_protect_efuse")
    /\ hist.commit = "ok"
    /\ result = "VERIFICATION_FAILED"
    /\ \E k \in 1..Len(args.names) : is_writeable(args.names[k])

\* ------------------------------------------------------------------ C13
\* C13: the checking loop of a value burn neither compares nor reports a
\* target that is unreadable after the burn, and a value burn whose readable
\* targets all match ends VERIFIED whatever its unreadable targets hold.
C13_UnreadableNotCompared ==
    (op = "burn_efuse" /\ hist.commit = "ok") =>
        /\ \A n \in hist.compared \cup hist.reported : is_readable(n)
        /\ (/\ pc = "done"
            /\ \A k \in 1..Len(args.names) :
                  is_readable(args.names[k]) =>
                      ~burn_efuse_mismatch(args.names[k], args.values[k]))
           => result = "VERIFIED"

\* The only target is unreadable after the burn and does not read back as
\* intended; the burn ended VERIFIED.
C13_Witness ==
    /\ Done("burn_efuse")
    /\ result = "VERIFIED"
    /\ Len(args.names) = 1
    /\ ~is_readable(args.names[1])
    /\ get_bitstring(args.names[1])
          # convert_to_bitstring(args.names[1], args.values[1])
    /\ hist.compared = {}

\* ------------------------------------------------------------------ C14
\* C14: the checking loop of a value burn looks at every target: when the
\* command reports, every target was checked and every readable target whose
\* read-back differs was reported, and the failure is raised only then.
C14_AllTargetsChecked ==
    (op = "burn_efuse" /\ hist.commit = "ok") =>
        /\ pc \in {"be_report", "done"} =>
              /\ hist.checked = Range(args.names)
              /\ hist.reported =
                    {n \in Range(args.names) :
                        \E k \in 1..Len(args.names) :
                            /\ args.names[k] = n
                            /\ is_readable(n)
                            /\ get_bitstring(n)
                                  # convert_to_bitstring(n, args.values[k])}
        /\ pc = "be_check" => result = "NONE"
        /\ result = "VERIFICATION_FAILED" => hist.checked = Range(args.names)

\* Both targets were reported as mismatches before the failure.
C14_Witness ==
    /\ Done("burn_efuse")
    /\ result = "VERIFICATION_FAILED"
    /\ Cardinality(hist.reported) = 2

\* ------------------------------------------------------------------ C15
\* The names the ATTENTION text lists for block b; none if the block got no
\* text.
C15_WarnedNames(b) == UNION {w[2] : w \in {v \in hist.warned : v[1] = b}}

\* C15: for every block a value burn touches, the ATTENTION text lists
\* exactly the symmetric difference between the block's field names and the
\* names written in the block when the block has a coding scheme, and a
\* touched block with coding scheme NONE gets no ATTENTION text, whatever
\* blocks came before it.
C15_HazardAdvisory ==
    (op = "burn_efuse" /\ pc # "done") =>
        \A b \in BlockIds :
            LET written == {n \in Range(args.names) : Efuse[n].block = b}
                inBlock == {n \in EfuseNames : Efuse[n].block = b}
            IN  /\ written = {} => \A w \in hist.warned : w[1] # b
                /\ written # {} =>
                      /\ Cardinality({w \in hist.warned : w[1] = b}) <= 1
                      /\ C15_WarnedNames(b) =
                            IF get_coding_scheme(b) # CODING_SCHEME_NONE
                            THEN SymDiff(inBlock, written)
                            ELSE {}

\* ------------------------------------------------------------------ C16
\* C16: for bit numbers all within 0..8L-1, the buffer burn_bit stages for a
\* block of L bytes has L bytes, bit (x mod 8) from the least significant of
\* byte (x div 8) set for every given bit number x and every other bit zero;
\* for bit number 0 alone neither the bit-order reversal alone nor the
\* byte-order reversal alone gives that buffer.
C16_BitEncoding ==
    (/\ op = "burn_bit"
     /\ pc = "bb_burn"
     /\ \A k \in 1..Len(args.bits) :
           args.bits[k] \in 0..(8 * get_block_len(
                                  get_index_block_by_name(args.names[1])) - 1))
    => LET b == get_index_block_by_name(args.names[1])
           L == get_block_len(b)
           set == BitStringSet(8 * L, args.bits)
       IN  /\ Len(pending[b]) = L
           /\ \A k \in 1..L : pending[b][k] \in 0..255
           /\ \A x \in 0..(8 * L - 1) :
                 BufBit(pending[b], x) = 1 <=> x \in Range(args.bits)
           /\ Range(args.bits) = {0} =>
                 /\ pending[b] # BitStringBytes(BitStringReverse(set, 8 * L), 8 * L)
                 /\ pending[b] # Reverse(BitStringBytes(set, 8 * L))

\* Bit 9 alone is staged: byte 1 of the buffer is 2 and the others are zero.
C16_Witness ==
    /\ op = "burn_bit"
    /\ pc = "bb_burn"
    /\ args.bits = <<9>>
    /\ LET b == get_index_block_by_name(args.names[1])
       IN  /\ pending[b][2] = 2
           /\ \A k \in 1..Len(pending[b]) : k # 2 => pending[b][k] = 0

\* ------------------------------------------------------------------ C17
\* What a command has to stage before its burn_all.
C17_ToStage ==
    IF op = "write_protect_efuse"
    THEN {n \in Range(args.names) : Writeable(hist.entry.committed, n)}
    ELSE Range(args.names)

\* One step of a command, as C17 allows it.
C17_Step ==
    /\ hist'.burns <= 1
    /\ hist'.burns > hist.burns =>
          /\ hist.staged = C17_ToStage
          /\ hist'.staged = hist.staged
    /\ hist.burns >= 1 =>
          /\ hist'.burns = hist.burns
          /\ hist'.staged = hist.staged
          /\ pending' = pending
          /\ committed' = committed
    /\ result \in {"COMMIT_FAILED", "VERIFICATION_FAILED"} => vars' = vars

\* C17: every command calls burn_all at most once, only when every target
\* of the call is staged, and stages and burns nothing after it; after
\* COMMIT_FAILED or VERIFICATION_FAILED the command takes no further step.
C17_SingleCommit == [][C17_Step]_vars

\* A burn_all over two staged targets raised and the command is over.
C17_Witness ==
    /\ pc = "done"
    /\ result = "COMMIT_FAILED"
    /\ hist.burns = 1
    /\ Cardinality(hist.staged) = 2
    /\ committed # hist.entry.committed

\* ------------------------------------------------------------------ C18
\* C18: burn_block_data and burn_bit check and compare nothing after
\* burn_all: once burn_all succeeded they end COMMITTED whatever the blocks
\* now hold, and they never end VERIFIED or VERIFICATION_FAILED; a command
\* that ends VERIFIED or VERIFICATION_FAILED is a value burn or a protection
\* burn.
C18_NoReadBack ==
    /\ op \in {"burn_block_data", "burn_bit"} =>
          /\ hist.checked = {}
          /\ hist.compared = {}
          /\ hist.reported = {}
          /\ hist.commit = "ok" => (pc = "done" /\ result = "COMMITTED")
    /\ result \in {"VERIFIED", "VERIFICATION_FAILED"} =>
          op \in {"burn_efuse", "read_protect_efuse", "write_protect_efuse"}

\* A raw block burn ended COMMITTED although the block does not hold the
\* bytes of the file.
C18_Witness ==
    /\ Done("burn_block_data")
    /\ result = "COMMITTED"
    /\ args.offset = 0
    /\ committed[get_index_block_by_name(args.names[1])] # args.data[1]

\* ------------------------------------------------------------------ C19
\* The results with which a command returns without raising.
C19_NormalReturns == {"VERIFIED", "COMMITTED", "ALREADY_PROTECTED"}

\* C19: a command that returns without raising has passed everything it
\* staged to burn_all: no block is left with pending content that differs
\* from its burned content, and whatever was staged was burned.
C19_NothingLeftStaged ==
    (pc = "done" /\ result \in C19_NormalReturns) =>
        /\ pending = committed
        /\ hist.staged # {} => hist.burns = 1

\* ------------------------------------------------------------------ C20
\* C20: in every reachable state the pending buffer of every block has
\* exactly the block's byte length, whatever burn_block_data and burn_bit
\* staged or refused.
C20_BlockLength ==
    \A b \in BlockIds :
        /\ Len(pending[b]) = get_block_len(b)
        /\ Len(committed[b]) = get_block_len(b)

\* A raw block burn with an offset, or a single-bit burn, has staged a
\* buffer that differs from the block's content and has the block's length.
C20_Witness ==
    /\ \/ op = "burn_block_data" /\ args.offset > 0
       \/ op = "burn_bit"
    /\ pc \in {"bbd_burn", "bb_burn"}
    /\ LET b == get_index_block_by_name(args.names[1])
       IN  /\ pending[b] # hist.entry.pending[b]
           /\ Len(pending[b]) = get_block_len(b)

====
